---- MODULE Spec2Model ----
(***************************************************************************)
(* Application-Specific Password API of wildduck (lib/api/asps.js):        *)
(* the list, create and delete request handlers, the callbacks of their    *)
(* collaborators (users.findOne, asps.find, userHandler.generateASP,       *)
(* userHandler.deleteASP, mobileconfig.getSignedEmailConfig) and the asps  *)
(* collection they act on.  Requests are served one after the other; each  *)
(* collaborator callback is a step of its own.                             *)
(***************************************************************************)
EXTENDS Integers, Sequences, FiniteSets, TLC

\* ---------------------------------------------------------------- bounds
\* number of ObjectIDs the Credential Service may hand out
MaxASPs == 2

\* ------------------------------------------------------ program constants
\* .length(24) of the user and asp ids
IdLength == 24
\* .max(255) of the description
MaxDescription == 255

\* consts.SCOPES (lib/consts.js)
SCOPES == {"imap", "pop3", "smtp"}

\* ------------------------------------------------------------ input sets
\* path parameter :user; the three well-formed ids are 24 lowercase hex
\* digits long, "xyz" is not hexadecimal
UserParams == {"u1", "u2", "u3", "xyz"}
HexLength(id) == IF id \in {"u1", "u2", "u3"} THEN 24 ELSE 0

\* path parameter :asp; 0 stands for a string that is not a 24 digit hex id
AspParams == 0..MaxASPs

\* scopes sent as an array
ScopeArrays ==
    { <<>>, <<"imap">>, <<"imap", "*">>, <<"imap", "imap">>, <<"bogus">> }
\* scopes sent as a comma-delimited string, as split(',') returns it:
\* "pop3, smtp ,imap" and " ,"
ScopeStrings == { <<"pop3", " smtp ", "imap">>, <<" ", "">> }

\* values of the generateMobileconfig parameter; "absent" is a missing key,
\* the others are strings
MobileconfigParams == {"absent", "yes", "maybe"}

\* values of the description parameter
RECURSIVE Rep(_)
Rep(n) == IF n = 0 THEN "" ELSE "x" \o Rep(n - 1)
DescriptionParams == {" Thunderbird ", Rep(MaxDescription + 1)}

\* values of the ip parameter of a delete request
IpParams == {"absent", "10.0.0.0/8"}

\* messages of the errors the collaborators may call back with
ErrMessages == {"Database Error", "Failed"}

Range(s) == {s[i] : i \in DOMAIN s}

\* ----------------------------------------------------------- collections
\* db.users.collection('users'): the accounts that exist
UsersCollection ==
    [u \in {"u1", "u2"} |->
        [username |-> u, name |-> "Name " \o u, address |-> u \o "@example.com"]]

\* the password the Credential Service generates for ObjectID id
Password(id) == 1000 + id

\* ------------------------------------------------------------- callbacks
\* the err argument of a callback: null or an Error with a message
Null == [null |-> TRUE]
Error(m) == [message |-> m]

\* ------------------------------------------------------------- String ops
\* String.prototype.trim on the strings the model uses
Trim(s) ==
    CASE s = " smtp " -> "smtp"
      [] s = " " -> ""
      [] s = " Thunderbird " -> "Thunderbird"
      [] OTHER -> s

\* Array.prototype.includes
Includes(arr, x) == \E i \in DOMAIN arr : arr[i] = x

\* scopes.split(',').map(scope => scope.trim()).filter(scope => scope)
SplitScopes(pieces) ==
    LET trimmed == [i \in DOMAIN pieces |-> Trim(pieces[i])]
        NonEmpty(t) == t # ""
    IN  SelectSeq(trimmed, NonEmpty)

\* ------------------------------------------------------------------ Joi
\* Joi.string().hex().lowercase().length(24).required()
ValidId(id) == HexLength(id) = IdLength

\* Joi.string().trim().max(255).required(): the value is trimmed first, an
\* empty string is not allowed
ValidDescription(d) ==
    /\ d # "absent"
    /\ Trim(d) # ""
    /\ Len(Trim(d)) <= MaxDescription

\* a scopes schema without .unique()
ValidScopesNoUnique(arr) ==
    /\ \A i \in DOMAIN arr : arr[i] \in SCOPES \cup {"*"}
    /\ Len(arr) >= 1

\* Joi.array().items(Joi.string().valid(...consts.SCOPES, '*').required())
\* .unique(): every item is a known scope or '*', the required item type
\* must match at least one item, and no two items are equal
ValidScopes(arr) ==
    /\ \A i \in DOMAIN arr : arr[i] \in SCOPES \cup {"*"}
    /\ Len(arr) >= 1
    /\ \A i, j \in DOMAIN arr : arr[i] = arr[j] => i = j

\* Joi.boolean().truthy(['Y', 'true', 'yes', 'on', 1])
\* .falsy(['N', 'false', 'no', 'off', 0, '']).default(false)
Truthy == {"TRUE", "Y", "true", "yes", "on"}
Falsy == {"FALSE", "N", "false", "no", "off", ""}
ValidBoolean(b) == b \in {"absent"} \cup Truthy \cup Falsy
ToBoolean(b) == b \in Truthy

\* Joi.string().ip({version: ['ipv4', 'ipv6'], cidr: 'forbidden'})
ValidIp(ip) == ip \in {"absent", "10.0.0.1"}

\* the keys of the create schema that params violates (abortEarly: false
\* collects all of them)
CreateViolations(params) ==
    {k \in {"user", "description", "scopes", "generateMobileconfig", "ip"} :
        CASE k = "user" -> ~ValidId(params.user)
          [] k = "description" -> ~ValidDescription(params.description)
          [] k = "scopes" -> "scopes" \in DOMAIN params /\ ~ValidScopes(params.scopes)
          [] k = "generateMobileconfig" -> ~ValidBoolean(params.generateMobileconfig)
          [] k = "ip" -> "ip" \in DOMAIN params /\ ~ValidIp(params.ip)}

\* result.value of the create schema (convert: true): description trimmed,
\* generateMobileconfig a boolean that defaults to false, scopes as sent
CreateValue(params) ==
    [k \in DOMAIN params |->
        CASE k = "description" -> Trim(params.description)
          [] k = "generateMobileconfig" -> ToBoolean(params.generateMobileconfig)
          [] OTHER -> params[k]]

\* result.error.message: one sentence per violated key
JoiMessage(violations) ==
    LET Part(k) == IF k \in violations THEN "child " \o k \o " fails. " ELSE ""
    IN  Part("user") \o Part("description") \o Part("scopes")
            \o Part("generateMobileconfig") \o Part("asp") \o Part("ip")

\* a validation that does not look at the description
ValidateCreateNoDescription(params) ==
    LET v == CreateViolations(params) \ {"description"}
    IN  IF v = {} THEN [error |-> Null, value |-> CreateValue(params)]
        ELSE [error |-> Error(JoiMessage(v))]

\* Joi.validate(req.params, schema, {abortEarly: false, convert: true})
ValidateCreate(params) ==
    LET v == CreateViolations(params)
    IN  IF v = {} THEN [error |-> Null, value |-> CreateValue(params)]
        ELSE [error |-> Error(JoiMessage(v))]

\* keys of the list and delete schemas that params violates
ListViolations(params) == {k \in {"user"} : ~ValidId(params.user)}

ValidateList(params) ==
    LET v == ListViolations(params)
    IN  IF v = {} THEN [error |-> Null, value |-> params]
        ELSE [error |-> Error(JoiMessage(v))]

\* :asp is a number in the model, 0 the malformed id
DeleteViolations(params) ==
    {k \in {"user", "asp", "ip"} :
        CASE k = "user" -> ~ValidId(params.user)
          [] k = "asp" -> params.asp = 0
          [] k = "ip" -> ~ValidIp(params.ip)}

ValidateDelete(params) ==
    LET v == DeleteViolations(params)
    IN  IF v = {} THEN [error |-> Null, value |-> params]
        ELSE [error |-> Error(JoiMessage(v))]

\* --------------------------------------------------------- configuration
\* JavaScript undefined, for a key an object does not have
Undefined == "undefined"
Get(obj, k) == IF k \in DOMAIN obj THEN obj[k] ELSE Undefined
\* a || b on strings
OrElse(a, b) == IF a \in {"", Undefined} THEN b ELSE a

\* wild-config: the api.mobileconfig template with or without a display
\* name, the imap and smtp setup blocks; template values are lists of text
\* parts, the part "{email}" being the placeholder
TemplateWithName ==
    [identifier |-> <<"com.example">>,
     displayName |-> <<"Mail of ", "{email}">>,
     accountDescription |-> <<" ", "{email}", " ">>]
TemplateWithoutName ==
    [identifier |-> <<"com.example">>,
     accountDescription |-> <<" ", "{email}", " ">>]

Config(template, smtpSecure) ==
    [api |-> [mobileconfig |-> template],
     imap |-> [port |-> 9993,
               setup |-> [hostname |-> "imap.example.com", port |-> 993, secure |-> TRUE]],
     smtp |-> [port |-> 2587,
               setup |-> [hostname |-> "smtp.example.com", port |-> 0, secure |-> smtpSecure]]]

Configs == {Config(TemplateWithName, FALSE), Config(TemplateWithoutName, TRUE)}

\* the signing keys of certs.get('api.mobileconfig')
certs == "api.mobileconfig keys"

\* value.toString().replace(/\{email\}/g, userData.address).trim()
RECURSIVE Join(_)
Join(parts) == IF parts = <<>> THEN "" ELSE Head(parts) \o Join(Tail(parts))
TrimEnds(parts) ==
    LET NotBlank(i) == parts[i] # " "
        keep == {i \in DOMAIN parts : NotBlank(i)}
        lo == CHOOSE i \in keep : \A j \in keep : i <= j
        hi == CHOOSE i \in keep : \A j \in keep : j <= i
    IN  IF keep = {} THEN <<>> ELSE SubSeq(parts, lo, hi)
ReplaceEmail(parts, address) ==
    Join(TrimEnds([i \in DOMAIN parts |-> IF parts[i] = "{email}" THEN address ELSE parts[i]]))

\* Object.keys(config.api.mobileconfig || {}).forEach(key => ...)
ProfileOpts(cfg, userData) ==
    [key \in DOMAIN cfg.api.mobileconfig |->
        ReplaceEmail(cfg.api.mobileconfig[key], userData.address)]

\* a || b on port numbers
OrPort(a, b) == IF a = 0 THEN b ELSE a

\* the template's display name first, the description as the fallback
DisplayNameTemplateFirst(description, profileOpts) ==
    OrElse(Get(profileOpts, "displayName"), description)

\* displayName: description || profileOpts.displayName
DisplayName(description, profileOpts) ==
    OrElse(description, Get(profileOpts, "displayName"))

\* an imap block that carries no secret
ImapAccountNoPassword(cfg, userData, result) ==
    [hostname |-> cfg.imap.setup.hostname,
     port |-> OrPort(cfg.imap.setup.port, cfg.imap.port),
     secure |-> cfg.imap.setup.secure,
     username |-> userData.username,
     password |-> 0]

\* options.imap
ImapAccount(cfg, userData, result) ==
    [hostname |-> cfg.imap.setup.hostname,
     port |-> OrPort(cfg.imap.setup.port, cfg.imap.port),
     secure |-> cfg.imap.setup.secure,
     username |-> userData.username,
     password |-> result.password]

\* options.smtp; secure is the literal true, the configured flag is not read
SmtpAccount(cfg, userData) ==
    [hostname |-> cfg.smtp.setup.hostname,
     port |-> OrPort(cfg.smtp.setup.port, cfg.smtp.port),
     secure |-> TRUE,
     username |-> userData.username,
     password |-> FALSE]

\* let options = {...}: the profile descriptor handed to the signer
Options(cfg, userData, description, result) ==
    LET profileOpts == ProfileOpts(cfg, userData)
    IN  [displayName |-> DisplayName(description, profileOpts),
         displayDescription |-> Get(profileOpts, "displayDescription"),
         accountDescription |-> Get(profileOpts, "accountDescription"),
         emailAddress |-> userData.address,
         emailAccountName |-> userData.name,
         identifier |-> Get(profileOpts, "identifier") \o "." \o userData.username,
         imap |-> ImapAccount(cfg, userData, result),
         smtp |-> SmtpAccount(cfg, userData),
         keys |-> certs]

\* ------------------------------------------------------------------ state
VARIABLES
    config,     \* wild-config, fixed when the process starts
    asps,       \* db.users.collection('asps'): the stored ASP records
    nextId,     \* the next ObjectID the Credential Service assigns
    pc,         \* where the request being served is: "idle", the collaborator
                \* whose callback is awaited, or "done"
    req,        \* the request being served: op, params and the handler's locals
    calls,      \* the collaborator calls made for this request, in order
    res,        \* the res.json() bodies sent for this request, in order
    nexts,      \* how many times next() was called for this request
    revealed,   \* per ASP id, how many responses so far carried its password
    listed      \* observation: whether list answers are recorded (on), and
                \* the owner and entries of the last list answer since the
                \* store last changed, and whether that owner's answer
                \* before it was recorded as well (last)

vars == <<config, asps, nextId, pc, req, calls, res, nexts, revealed, listed>>

\* the observation after a step that leaves the store as newAsps: a changed
\* store makes the recorded list answer obsolete
Observed(newAsps) == IF newAsps = asps THEN listed ELSE [listed EXCEPT !.last = <<>>]

\* the observation after a list answer with these entries for this owner
ObservedList(user, results) ==
    IF ~listed.on THEN listed
    ELSE LET again == listed.last # <<>> /\ listed.last[1].user = user
         IN  [listed EXCEPT !.last = <<[user |-> user, results |-> results, again |-> again]>>]

\* the passwords a response body carries, at top level or in its results
PasswordsIn(body) ==
    (IF "password" \in DOMAIN body THEN {body.password} ELSE {})
    \cup (IF "results" \in DOMAIN body
          THEN UNION {IF "password" \in DOMAIN body.results[i]
                      THEN {body.results[i].password} ELSE {} : i \in DOMAIN body.results}
          ELSE {})

\* the revealed counts after body was sent
Reveal(body) ==
    [id \in DOMAIN revealed |->
        IF Password(id) \in PasswordsIn(body) /\ revealed[id] < 2
        THEN revealed[id] + 1 ELSE revealed[id]]

\* res.json(body); return next(); in the handler itself: the first step of
\* a request starts its calls, res and nexts afresh
RespondAtOnce(body) ==
    /\ calls' = <<>>
    /\ res' = <<body>>
    /\ nexts' = 1
    /\ pc' = "done"
    /\ revealed' = Reveal(body)

\* the handler calls its first collaborator and returns
FirstCall(fn, args, position) ==
    /\ calls' = <<[fn |-> fn, args |-> args]>>
    /\ res' = <<>>
    /\ nexts' = 0
    /\ pc' = position
    /\ UNCHANGED revealed

\* a callback that sends the body and forgets next()
RespondWithoutNext(body) ==
    /\ res' = Append(res, body)
    /\ nexts' = nexts
    /\ pc' = "done"
    /\ revealed' = Reveal(body)
    /\ UNCHANGED calls

\* res.json(body); return next(); in a callback
Respond(body) ==
    /\ res' = Append(res, body)
    /\ nexts' = nexts + 1
    /\ pc' = "done"
    /\ revealed' = Reveal(body)
    /\ UNCHANGED calls

\* a callback calls the next collaborator and returns
Call(fn, args, position) ==
    /\ calls' = Append(calls, [fn |-> fn, args |-> args])
    /\ pc' = position
    /\ UNCHANGED <<res, nexts, revealed>>

Init ==
    /\ config \in Configs
    /\ asps = {}
    /\ nextId = 1
    /\ pc = "idle"
    /\ req = [op |-> "none"]
    /\ calls = <<>>
    /\ res = <<>>
    /\ nexts = 0
    /\ revealed = [id \in 1..MaxASPs |-> 0]
    /\ listed = [on |-> FALSE, last |-> <<>>]

\* the same start with list answers recorded; the list handler reads no
\* configuration, one configuration is enough
ListInit ==
    /\ config = Config(TemplateWithName, FALSE)
    /\ asps = {}
    /\ nextId = 1
    /\ pc = "idle"
    /\ req = [op |-> "none"]
    /\ calls = <<>>
    /\ res = <<>>
    /\ nexts = 0
    /\ revealed = [id \in 1..MaxASPs |-> 0]
    /\ listed = [on |-> TRUE, last |-> <<>>]

\* ----------------------------------------------------- POST /users/:user/asps
\* let scopes = result.value.scopes || ['*']; if (scopes.includes('*')) ...
\* (an array, also an empty one, is truthy)
NormalizeScopes(value) ==
    LET scopes == IF "scopes" \in DOMAIN value THEN value.scopes ELSE <<"*">>
    IN  IF Includes(scopes, "*") THEN <<"*">> ELSE scopes

\* a create handler that looks the account up without the conflict check
ProfileConflictNever(generateMobileconfig, scopes) == FALSE

\* the conflict check with && written for ||
ProfileConflictBoth(generateMobileconfig, scopes) ==
    /\ generateMobileconfig
    /\ ~Includes(scopes, "*")
    /\ (~Includes(scopes, "imap") /\ ~Includes(scopes, "smtp"))

\* generateMobileconfig && !scopes.includes('*') &&
\* (!scopes.includes('imap') || !scopes.includes('smtp'))
ProfileConflict(generateMobileconfig, scopes) ==
    /\ generateMobileconfig
    /\ ~Includes(scopes, "*")
    /\ (~Includes(scopes, "imap") \/ ~Includes(scopes, "smtp"))

\* the data argument of userHandler.generateASP(user, result.value, ...)
GenerateASPData(value, scopes) == value

\* the body sent when the request does not pass the schema
ValidationErrorBody(error) ==
    [error |-> error.message, code |-> "InputValidationError"]

\* the bodies the users.findOne callback sends
DatabaseErrorBody(err) ==
    [error |-> "MongoDB Error: " \o err.message, code |-> "InternalDatabaseError"]
UserNotFoundBody == [error |-> "This user does not exist", code |-> "UserNotFound"]

\* the create requests a caller may send; a scopes string is split on arrival
CreateParams ==
    LET base == [user : UserParams, description : DescriptionParams,
                 generateMobileconfig : MobileconfigParams]
    IN  [kind : {"none"}, base : base]
        \cup [kind : {"array"}, base : base, scopes : ScopeArrays]
        \cup [kind : {"string"}, base : base, scopes : ScopeStrings]

\* if (typeof req.params.scopes === 'string') req.params.scopes = ...
SplitParams(p) ==
    CASE p.kind = "none" -> p.base
      [] p.kind = "array" -> p.base @@ [scopes |-> p.scopes]
      [] p.kind = "string" -> p.base @@ [scopes |-> SplitScopes(p.scopes)]

\* the body of the scope conflict
ConflictBody == [error |-> "Profile file requires imap and smtp scopes"]

\* server.post('/users/:user/asps', ...) up to the account lookup
CreateRequest ==
    \E p \in CreateParams :
        LET params == SplitParams(p)
            result == ValidateCreate(params)
        IN  /\ pc = "idle"
            /\ nextId <= MaxASPs
            /\ UNCHANGED <<config, asps, nextId, listed>>
            /\ IF result.error # Null
               THEN /\ req' = [op |-> "create", params |-> params]
                    /\ RespondAtOnce(ValidationErrorBody(result.error))
               ELSE LET user == result.value.user
                        generateMobileconfig == result.value.generateMobileconfig
                        scopes == NormalizeScopes(result.value)
                        description == result.value.description
                    IN  /\ req' = [op |-> "create", params |-> params, value |-> result.value,
                                   user |-> user, generateMobileconfig |-> generateMobileconfig,
                                   scopes |-> scopes, description |-> description]
                        /\ IF ProfileConflict(generateMobileconfig, scopes)
                           THEN RespondAtOnce(ConflictBody)
                           ELSE FirstCall("users.findOne", <<user>>, "create.findOne")

\* db.users.collection('users').findOne({_id: user}, ...): calls back with an
\* error, or with the account or null
FindOneOutcomes(user) ==
    {[err |-> Error(m)] : m \in ErrMessages}
    \cup {[err |-> Null,
           userData |-> IF user \in DOMAIN UsersCollection
                        THEN UsersCollection[user] ELSE Null]}

\* userHandler.generateASP(user, data, callback) of the Credential Service:
\* fails, or stores a new ASP and calls back with its id and password
NewASP(id, user, data) ==
    [_id |-> id, user |-> user, description |-> data.description,
     scopes |-> IF "scopes" \in DOMAIN data THEN data.scopes ELSE <<>>,
     password |-> Password(id), created |-> id, used |-> FALSE, authEvent |-> FALSE]

GenerateASPOutcomes(user, data) ==
    {[err |-> Error(m), asps |-> asps, nextId |-> nextId] : m \in ErrMessages}
    \cup {[err |-> Null,
           result |-> [id |-> nextId, password |-> Password(nextId)],
           asps |-> asps \cup {NewASP(nextId, user, data)},
           nextId |-> nextId + 1]}

\* mobileconfig.getSignedEmailConfig(options, callback) of the Profile
\* Signer: fails, or calls back with the signed blob
Signed(options) == [signed |-> options]
SignOutcomes(options) ==
    {[err |-> Error(m)] : m \in ErrMessages}
    \cup {[err |-> Null, data |-> Signed(options)]}

\* data.toString('base64')
Base64(data) == [base64 |-> data]

\* the bodies of the create handler's callbacks
GenerateErrorBody(err) == [error |-> err.message]
CreatedBody(result) == [success |-> TRUE, id |-> result.id, password |-> result.password]
\* a signing error body that also carries the id of the minted ASP
SignErrorBodyWithId(err, result) == [error |-> err.message, id |-> result.id]
SignErrorBody(err, result) == [error |-> err.message]
CreatedProfileBody(result, data) ==
    [success |-> TRUE, id |-> result.id, password |-> result.password,
     mobileconfig |-> Base64(data)]

\* a check that lets a missing account through
NoUserNever(userData) == FALSE

\* if (!userData) of the findOne callbacks
NoUser(userData) == userData = Null

\* (err, userData) => {...} of the create handler
CreateFindOneCallback ==
    /\ pc = "create.findOne"
    /\ \E out \in FindOneOutcomes(req.user) :
        /\ UNCHANGED <<config, asps, nextId, listed>>
        /\ IF out.err # Null
           THEN /\ Respond(DatabaseErrorBody(out.err))
                /\ UNCHANGED req
           ELSE IF NoUser(out.userData)
           THEN /\ Respond(UserNotFoundBody)
                /\ req' = req @@ [userData |-> out.userData]
           ELSE /\ req' = req @@ [userData |-> out.userData]
                /\ Call("generateASP",
                        <<req.user, GenerateASPData(req.value, req.scopes)>>,
                        "create.generateASP")

\* a generateASP callback that asks the Credential Service once more when it
\* failed
GenerateASPCallbackRetries ==
    /\ pc = "create.generateASP"
    /\ \E out \in GenerateASPOutcomes(calls[Len(calls)].args[1], calls[Len(calls)].args[2]) :
        /\ UNCHANGED config
        /\ asps' = out.asps
        /\ listed' = Observed(out.asps)
        /\ nextId' = out.nextId
        /\ IF out.err # Null /\ Len(calls) < 3
           THEN /\ Call("generateASP", calls[Len(calls)].args, "create.generateASP")
                /\ UNCHANGED req
           ELSE IF out.err # Null
           THEN /\ Respond(GenerateErrorBody(out.err))
                /\ UNCHANGED req
           ELSE IF ~req.generateMobileconfig
           THEN /\ Respond(CreatedBody(out.result))
                /\ req' = req @@ [result |-> out.result]
           ELSE /\ req' = req @@ [result |-> out.result]
                /\ Call("getSignedEmailConfig",
                        <<Options(config, req.userData, req.description, out.result)>>,
                        "create.sign")

\* a generateASP callback that signs a profile whether or not one was asked
\* for
GenerateASPCallbackAlwaysSigns ==
    /\ pc = "create.generateASP"
    /\ \E out \in GenerateASPOutcomes(calls[Len(calls)].args[1], calls[Len(calls)].args[2]) :
        /\ UNCHANGED config
        /\ asps' = out.asps
        /\ listed' = Observed(out.asps)
        /\ nextId' = out.nextId
        /\ IF out.err # Null
           THEN /\ Respond(GenerateErrorBody(out.err))
                /\ UNCHANGED req
           ELSE /\ req' = req @@ [result |-> out.result]
                /\ Call("getSignedEmailConfig",
                        <<Options(config, req.userData, req.description, out.result)>>,
                        "create.sign")

\* (err, result) => {...} of userHandler.generateASP
GenerateASPCallback ==
    /\ pc = "create.generateASP"
    /\ \E out \in GenerateASPOutcomes(calls[Len(calls)].args[1], calls[Len(calls)].args[2]) :
        /\ UNCHANGED config
        /\ asps' = out.asps
        /\ listed' = Observed(out.asps)
        /\ nextId' = out.nextId
        /\ IF out.err # Null
           THEN /\ Respond(GenerateErrorBody(out.err))
                /\ UNCHANGED req
           ELSE IF ~req.generateMobileconfig
           THEN /\ Respond(CreatedBody(out.result))
                /\ req' = req @@ [result |-> out.result]
           ELSE /\ req' = req @@ [result |-> out.result]
                /\ Call("getSignedEmailConfig",
                        <<Options(config, req.userData, req.description, out.result)>>,
                        "create.sign")

\* a signing callback that deletes the ASP again when signing failed
SignCallbackRollback ==
    /\ pc = "create.sign"
    /\ \E out \in SignOutcomes(calls[Len(calls)].args[1]) :
        /\ UNCHANGED <<config, nextId, req>>
        /\ IF out.err # Null
           THEN /\ asps' = {a \in asps : a._id # req.result.id}
                /\ listed' = Observed({a \in asps : a._id # req.result.id})
                /\ Respond(SignErrorBody(out.err, req.result))
           ELSE /\ UNCHANGED <<asps, listed>>
                /\ Respond(CreatedProfileBody(req.result, out.data))

\* (err, data) => {...} of mobileconfig.getSignedEmailConfig
SignCallback ==
    /\ pc = "create.sign"
    /\ \E out \in SignOutcomes(calls[Len(calls)].args[1]) :
        /\ UNCHANGED <<config, asps, nextId, req, listed>>
        /\ IF out.err # Null
           THEN Respond(SignErrorBody(out.err, req.result))
           ELSE Respond(CreatedProfileBody(req.result, out.data))

\* ------------------------------------------------------ GET /users/:user/asps
ListParams == [user : UserParams]

\* server.get('/users/:user/asps', ...) up to the account lookup
ListRequest ==
    \E params \in ListParams :
        LET result == ValidateList(params)
        IN  /\ pc = "idle"
            /\ UNCHANGED <<config, asps, nextId, listed>>
            /\ IF result.error # Null
               THEN /\ req' = [op |-> "list", params |-> params]
                    /\ RespondAtOnce(ValidationErrorBody(result.error))
               ELSE /\ req' = [op |-> "list", params |-> params, value |-> result.value,
                               user |-> result.value.user]
                    /\ FirstCall("users.findOne", <<result.value.user>>, "list.findOne")

\* .sort({_id: 1}).toArray(): the records of S in ascending _id order
RECURSIVE SortById(_)
SortById(S) ==
    IF S = {} THEN <<>>
    ELSE LET first == CHOOSE a \in S : \A b \in S : a._id <= b._id
         IN  <<first>> \o SortById(S \ {first})

\* a query without the owner filter
FindQueryAll(user) == asps

\* .find({user}): the stored records of that owner
FindQuery(user) == {a \in asps : a.user = user}

\* db.users.collection('asps').find({user}).sort({_id: 1}).toArray(...)
FindOutcomes(user) ==
    {[err |-> Error(m)] : m \in ErrMessages}
    \cup {[err |-> Null, asps |-> SortById(FindQuery(user))]}

\* a summary that copies the password as well
SummaryWithPassword(asp) ==
    [id |-> asp._id,
     description |-> asp.description,
     scopes |-> asp.scopes,
     password |-> asp.password,
     lastUse |-> [time |-> asp.used, event |-> asp.authEvent],
     created |-> asp.created]

\* asp => ({id, description, scopes, lastUse, created})
Summary(asp) ==
    [id |-> asp._id,
     description |-> asp.description,
     scopes |-> asp.scopes,
     lastUse |-> [time |-> asp.used, event |-> asp.authEvent],
     created |-> asp.created]

\* {success: true, results: asps.map(...)}
ListBody(found) == [success |-> TRUE, results |-> [i \in DOMAIN found |-> Summary(found[i])]]

\* (err, userData) => {...} of the list handler
ListFindOneCallback ==
    /\ pc = "list.findOne"
    /\ \E out \in FindOneOutcomes(req.user) :
        /\ UNCHANGED <<config, asps, nextId, listed>>
        /\ IF out.err # Null
           THEN /\ Respond(DatabaseErrorBody(out.err))
                /\ UNCHANGED req
           ELSE IF NoUser(out.userData)
           THEN /\ Respond(UserNotFoundBody)
                /\ req' = req @@ [userData |-> out.userData]
           ELSE /\ req' = req @@ [userData |-> out.userData]
                /\ Call("asps.find", <<req.user>>, "list.find")

\* a toArray callback that marks the listed ASPs as used
FindCallbackTouches ==
    /\ pc = "list.find"
    /\ \E out \in FindOutcomes(calls[Len(calls)].args[1]) :
        /\ UNCHANGED <<config, nextId, req>>
        /\ IF out.err # Null
           THEN /\ Respond(DatabaseErrorBody(out.err))
                /\ UNCHANGED <<asps, listed>>
           ELSE /\ Respond(ListBody(out.asps))
                /\ asps' = {IF a \in Range(out.asps) THEN [a EXCEPT !.used = TRUE] ELSE a : a \in asps}
                /\ listed' = ObservedList(req.user, ListBody(out.asps).results)

\* (err, asps) => {...} of toArray
FindCallback ==
    /\ pc = "list.find"
    /\ \E out \in FindOutcomes(calls[Len(calls)].args[1]) :
        /\ UNCHANGED <<config, asps, nextId, req>>
        /\ IF out.err # Null
           THEN /\ Respond(DatabaseErrorBody(out.err))
                /\ UNCHANGED listed
           ELSE /\ Respond(ListBody(out.asps))
                /\ listed' = ObservedList(req.user, ListBody(out.asps).results)

\* ---------------------------------------------- DELETE /users/:user/asps/:asp
DeleteParams == [user : UserParams, asp : AspParams, ip : IpParams]

\* server.del('/users/:user/asps/:asp', ...) up to the Credential Service
DeleteRequest ==
    \E params \in DeleteParams :
        LET result == ValidateDelete(params)
        IN  /\ pc = "idle"
            /\ UNCHANGED <<config, asps, nextId, listed>>
            /\ IF result.error # Null
               THEN /\ req' = [op |-> "delete", params |-> params]
                    /\ RespondAtOnce(ValidationErrorBody(result.error))
               ELSE /\ req' = [op |-> "delete", params |-> params, value |-> result.value,
                               user |-> result.value.user, asp |-> result.value.asp]
                    /\ FirstCall("deleteASP",
                                 <<result.value.user, result.value.asp, result.value>>,
                                 "delete.deleteASP")

\* userHandler.deleteASP(user, asp, data, callback) of the Credential
\* Service: removes the record with that id under that owner, or fails;
\* when there is no such record it fails with NotFound
NotFoundError == [message |-> "Application Password was not found", code |-> "NotFound"]
DeleteASPOutcomes(user, asp) ==
    LET found == {a \in asps : a._id = asp /\ a.user = user}
    IN  IF found = {}
        THEN {[err |-> NotFoundError, asps |-> asps]}
        ELSE {[err |-> Error(m), asps |-> asps] : m \in ErrMessages}
             \cup {[err |-> Null, asps |-> asps \ found]}

\* the bodies of the deleteASP callback
\* an error callback answered as a success
DeleteErrorBodySuccess(err) == [success |-> TRUE]
DeleteErrorBody(err) == [error |-> err.message]
DeletedBody == [success |-> TRUE]

\* err => {...} of userHandler.deleteASP
DeleteASPCallback ==
    /\ pc = "delete.deleteASP"
    /\ \E out \in DeleteASPOutcomes(calls[Len(calls)].args[1], calls[Len(calls)].args[2]) :
        /\ UNCHANGED <<config, nextId, req>>
        /\ asps' = out.asps
        /\ listed' = Observed(out.asps)
        /\ IF out.err # Null
           THEN Respond(DeleteErrorBody(out.err))
           ELSE Respond(DeletedBody)

\* next() hands the request back to the server, which ends it
RequestEnds ==
    /\ pc = "done"
    /\ pc' = "idle"
    /\ req' = [op |-> "none"]
    /\ calls' = <<>>
    /\ res' = <<>>
    /\ nexts' = 0
    /\ UNCHANGED <<config, asps, nextId, revealed, listed>>

\* ------------------------------------------------------------ specification
Next ==
    \/ RequestEnds
    \/ CreateRequest
    \/ CreateFindOneCallback
    \/ GenerateASPCallback
    \/ SignCallback
    \/ ListRequest
    \/ ListFindOneCallback
    \/ FindCallback
    \/ DeleteRequest
    \/ DeleteASPCallback

Spec == Init /\ [][Next]_vars

\* every collaborator invokes the callback it was given
CallbacksHappen ==
    /\ WF_vars(CreateFindOneCallback)
    /\ WF_vars(GenerateASPCallback)
    /\ WF_vars(SignCallback)
    /\ WF_vars(ListFindOneCallback)
    /\ WF_vars(FindCallback)
    /\ WF_vars(DeleteASPCallback)

FairSpec == Spec /\ CallbacksHappen

\* the program with its list answers recorded
ListSpec == ListInit /\ [][Next]_vars

TypeOK ==
    /\ nextId \in 1..(MaxASPs + 1)
    /\ nexts \in 0..1
    /\ Len(res) = nexts
    /\ \A a \in asps : a._id < nextId

\* ------------------------------------------------------- words of the claims
\* the set of scope tokens a create request carries after splitting
RequestedScopes(params) ==
    IF "scopes" \in DOMAIN params THEN Range(params.scopes) ELSE {}

\* the normalized scope set of the Scope Normalizer: wildcard collapses,
\* nothing requested defaults to wildcard
NormalizedScopes(params) ==
    LET requested == RequestedScopes(params)
    IN  IF requested = {} \/ "*" \in requested THEN {"*"} ELSE requested

\* the request being served passed the schema
Validated == "value" \in DOMAIN req

\* the names of the collaborators called for the request being served
Called == {calls[i].fn : i \in DOMAIN calls}

\* the ids of the stored ASPs
StoredIds == {a._id : a \in asps}

\* the request being served was answered with exactly this one body
AnsweredWith(body) == pc = "done" /\ res = <<body>> /\ nexts = 1

\* the request being served was answered with an error body
AnsweredWithError ==
    pc = "done" /\ Len(res) = 1 /\ "error" \in DOMAIN res[1] /\ "success" \notin DOMAIN res[1]

\* the request being served was answered with a success body
AnsweredWithSuccess ==
    pc = "done" /\ Len(res) = 1 /\ "success" \in DOMAIN res[1] /\ "error" \notin DOMAIN res[1]

\* ----------------------------------------------------------------------- C1
\* a validated create request that wants a profile and whose normalized
\* scopes are neither {*} nor a superset of {imap, smtp}
C1_Case ==
    /\ req.op = "create"
    /\ Validated
    /\ req.value.generateMobileconfig
    /\ NormalizedScopes(req.params) # {"*"}
    /\ ~({"imap", "smtp"} \subseteq NormalizedScopes(req.params))

\* C1: a create request that wants a profile with scopes that are neither
\* {*} nor a superset of {imap, smtp} is answered with the scope conflict
\* error, generateASP is never called for it and the stored ASPs stay as
\* they were.
C1_ConflictBeforeMinting ==
    [][C1_Case' =>
        /\ AnsweredWith([error |-> "Profile file requires imap and smtp scopes"])'
        /\ "generateASP" \notin Called'
        /\ asps' = asps
        /\ nextId' = nextId]_vars

C1_Witness ==
    /\ C1_Case
    /\ pc = "done"
    /\ req.params.scopes = <<"imap">>
    /\ asps # {}

\* ----------------------------------------------------------------------- C2
\* the ids the Credential Service has minted so far
MintedIds == 1..(nextId - 1)

\* the create request that minted id is still waiting for the signer
BeingSigned(id) == pc = "create.sign" /\ req.result.id = id

\* C2 as claimed: the secret of every minted ASP is returned exactly once,
\* in the response of the create request that minted it, and in no list,
\* delete or later response.
C2_SecretReturnedExactlyOnce ==
    /\ \A id \in MintedIds : BeingSigned(id) \/ revealed[id] = 1
    /\ \A i \in DOMAIN res : PasswordsIn(res[i]) # {} => req.op = "create"

\* C2 as amended: the secret of a minted ASP is returned at most once:
\* exactly once, in the success response of the create request that minted
\* it (with or without a profile), and not at all when that request ends
\* with an error (signing failed); no list, delete, error or later response
\* carries a secret.
C2_SecretReturnedAtMostOnce ==
    /\ \A id \in DOMAIN revealed : revealed[id] <= 1
    /\ \A id \in DOMAIN revealed : revealed[id] = 1 => id \in MintedIds
    /\ \A i \in DOMAIN res :
        IF req.op = "create" /\ "success" \in DOMAIN res[i]
        THEN /\ "result" \in DOMAIN req
             /\ res[i].id = req.result.id
             /\ res[i].id = nextId - 1
             /\ PasswordsIn(res[i]) = {Password(res[i].id)}
             /\ revealed[res[i].id] = 1
        ELSE PasswordsIn(res[i]) = {}
    /\ (pc = "done" /\ req.op = "create" /\ "result" \in DOMAIN req /\ AnsweredWithError)
            => revealed[req.result.id] = 0

\* a list response is sent that shows an ASP whose secret was returned by
\* an earlier create with a profile
C2_Witness ==
    /\ AnsweredWithSuccess
    /\ req.op = "list"
    /\ \E i \in DOMAIN res[1].results :
        /\ revealed[res[1].results[i].id] = 1
        /\ res[1].results[i].scopes = <<"pop3", "smtp", "imap">>
    /\ \E id \in MintedIds : revealed[id] = 0

\* ----------------------------------------------------------------------- C3
\* the step in which the signer calls back with an error
SigningFails == pc = "create.sign" /\ pc' = "done" /\ "error" \in DOMAIN res'[1]

\* a list response shows every stored ASP of the owner, also one whose
\* secret was never returned
ListShowsStored ==
    (AnsweredWithSuccess /\ req.op = "list") =>
        \A a \in asps : a.user = req.user =>
            \E i \in DOMAIN res[1].results : res[1].results[i].id = a._id

\* C3: when the Credential Service succeeded and the signer then fails, the
\* handler reports the signer's error and rolls nothing back: deleteASP is
\* not called, the minted ASP stays stored and a later list of that owner
\* shows it.
C3_NoRollback ==
    [][/\ SigningFails =>
            /\ AnsweredWithError'
            /\ res'[1].error \in ErrMessages
            /\ "deleteASP" \notin Called'
            /\ asps' = asps
            /\ \E a \in asps' : a._id = req.result.id /\ a.user = req.user
       /\ ListShowsStored']_vars

\* a list response shows an ASP whose create request failed in signing
C3_Witness ==
    /\ AnsweredWithSuccess
    /\ req.op = "list"
    /\ \E i \in DOMAIN res[1].results : revealed[res[1].results[i].id] = 0

\* ----------------------------------------------------------------------- C4
\* the create request being served was answered with the signer's error
SigningErrorAnswered ==
    AnsweredWithError /\ req.op = "create" /\ "getSignedEmailConfig" \in Called

\* the create request being served was answered with the Credential
\* Service's error
MintingErrorAnswered ==
    /\ AnsweredWithError /\ req.op = "create"
    /\ "generateASP" \in Called /\ "getSignedEmailConfig" \notin Called

HandedData == {calls[i].args[2] : i \in {j \in DOMAIN calls : calls[j].fn = "generateASP"}}

\* C5: the scopes handed to the Credential Service are the normalized scope
\* set ({*} whenever '*' was requested together with other tokens, the
\* requested known scopes otherwise), and every stored ASP has scopes that
\* are exactly {*} or a set of known scopes without '*'.
C5_HandedScopesNormalized ==
    /\ (req.op = "create" /\ RequestedScopes(req.params) # {}) =>
            \A data \in HandedData :
                /\ "scopes" \in DOMAIN data
                /\ Range(data.scopes) = NormalizedScopes(req.params)
    /\ \A a \in asps : Range(a.scopes) = {"*"} \/ Range(a.scopes) \subseteq SCOPES

\* ----------------------------------------------------------------------- C6
\* a create request without scopes (none, an empty array or a string with
\* no token) that is well-formed otherwise
C6_Case ==
    /\ req.op = "create"
    /\ RequestedScopes(req.params) = {}
    /\ CreateViolations(req.params) \subseteq {"scopes"}

\* C6: a create request without scopes is served with the scope set {*}:
\* that set is used for the conflict check and handed to the Credential
\* Service, and the request is not rejected as a scope conflict.
C6_EffectiveScopesNeverEmpty ==
    C6_Case =>
        /\ Validated
        /\ req.scopes = <<"*">>
        /\ \A data \in HandedData : "scopes" \in DOMAIN data /\ data.scopes = <<"*">>
        /\ ~AnsweredWith([error |-> "Profile file requires imap and smtp scopes"])

\* ----------------------------------------------------------------------- C7
\* C7: a successful list response for an owner holds exactly the stored
\* ASPs of that owner, in ascending id order, each with the stored
\* description, scopes and creation time and without the secret; a list for
\* an existing account fails only when the database does.
C7_ListExact ==
    /\ (AnsweredWithSuccess /\ req.op = "list") =>
        LET results == res[1].results
        IN  /\ {results[i].id : i \in DOMAIN results}
                    = {a._id : a \in {b \in asps : b.user = req.params.user}}
            /\ \A i, j \in DOMAIN results : i < j => results[i].id < results[j].id
            /\ \A i \in DOMAIN results :
                /\ DOMAIN results[i] \cap {"password", "secret"} = {}
                /\ \E a \in asps :
                    /\ a._id = results[i].id
                    /\ a.description = results[i].description
                    /\ a.scopes = results[i].scopes
                    /\ a.created = results[i].created
    /\ (pc = "done" /\ req.op = "list" /\ req.params.user \in DOMAIN UsersCollection) =>
        \/ AnsweredWithSuccess
        \/ AnsweredWithError /\ res[1].code = "InternalDatabaseError"

\* a list response shows two ASPs of one owner
C7_Witness ==
    /\ AnsweredWithSuccess
    /\ req.op = "list"
    /\ Len(res[1].results) = 2

\* ----------------------------------------------------------------------- C8
\* the step in which deleteASP calls back for an id that is not stored
\* under the owner of the request
DeleteOfMissing ==
    /\ pc = "delete.deleteASP"
    /\ pc' = "done"
    /\ ~\E a \in asps : a._id = req.asp /\ a.user = req.user

\* C8: deleting an id that is not stored under that owner (never created,
\* of another owner, or deleted before) is answered with the not-found
\* error and not with success, and leaves every stored ASP as it was.
C8_DeleteMissingIsError ==
    [][DeleteOfMissing =>
        /\ AnsweredWithError'
        /\ res'[1].error = "Application Password was not found"
        /\ asps' = asps]_vars

\* the second delete of an ASP was answered with an error while another
\* ASP is stored
C8_Witness ==
    /\ AnsweredWithError
    /\ req.op = "delete"
    /\ Validated
    /\ req.asp \in MintedIds
    /\ req.asp \notin StoredIds
    /\ asps # {}

\* ----------------------------------------------------------------------- C9
\* the account lookup of the create request being served found no account
C9_Case ==
    /\ req.op = "create"
    /\ "userData" \in DOMAIN req
    /\ req.userData = Null

\* C9: a create request whose owner does not resolve to an account ends
\* with the UserNotFound error; neither generateASP nor the signer is
\* called and no ASP is created.
C9_UserNotFoundShortCircuits ==
    [][C9_Case' =>
        /\ req'.user \notin DOMAIN UsersCollection
        /\ AnsweredWith([error |-> "This user does not exist", code |-> "UserNotFound"])'
        /\ Called' = {"users.findOne"}
        /\ asps' = asps
        /\ nextId' = nextId]_vars

C9_Witness == C9_Case /\ pc = "done" /\ req.generateMobileconfig /\ asps # {}

\* ---------------------------------------------------------------------- C10
\* the request being served does not pass the schema of its handler
C10_Case ==
    \/ req.op = "create" /\ CreateViolations(req.params) # {}
    \/ req.op = "list" /\ ListViolations(req.params) # {}
    \/ req.op = "delete" /\ DeleteViolations(req.params) # {}

\* C10: a list, create or delete request that fails input validation is
\* answered with an InputValidationError body, no collaborator is called
\* for it and the store stays as it was.
C10_ValidationBeforeCollaborators ==
    [][C10_Case' =>
        /\ AnsweredWithError'
        /\ res'[1].code = "InputValidationError"
        /\ calls' = <<>>
        /\ asps' = asps
        /\ nextId' = nextId]_vars

C10_Witness ==
    /\ C10_Case
    /\ pc = "done"
    /\ req.op = "delete"
    /\ req.params.asp = 0
    /\ asps # {}

\* ---------------------------------------------------------------------- C11
\* C11: every error body of the list, create and delete handlers carries an
\* error message and an error code, also the scope conflict, a Credential
\* Service failure on create, a signing failure and a delete failure (whose
\* code is NotFound when the id is not stored under that owner).
C11_ErrorsCarryCode ==
    AnsweredWithError =>
        /\ "code" \in DOMAIN res[1]
        /\ (req.op = "delete" /\ Validated /\ req.asp \notin StoredIds)
                => res[1].code = "NotFound"

\* ---------------------------------------------------------------------- C12
\* a request is being served and has not been answered yet
InFlight == pc \notin {"idle", "done"}

\* C12: when every collaborator calls back, every list, create and delete
\* request completes: a request that waits for a callback is eventually
\* answered, a completed request has sent exactly one body and called
\* next() exactly once, and no request ever sends a second body or calls
\* next() before or without its body.
C12_EveryRequestCompletes ==
    /\ [](/\ Len(res) <= 1
          /\ nexts = Len(res)
          /\ (pc = "done" <=> nexts = 1)
          /\ (InFlight => calls # <<>>))
    /\ InFlight ~> (pc = "done" /\ Len(res) = 1 /\ nexts = 1)

\* a create request with a profile went through all three collaborators
\* and was answered
C12_Witness ==
    /\ pc = "done"
    /\ req.op = "create"
    /\ Len(calls) = 3
    /\ Len(res) = 1
    /\ nexts = 1

\* ---------------------------------------------------------------------- C13
\* the profile descriptors handed to the signer in this request
Descriptors == {calls[i].args[1] : i \in {j \in DOMAIN calls : calls[j].fn = "getSignedEmailConfig"}}

\* C13: the descriptor handed to the signer carries, in its imap block, the
\* secret the Credential Service just returned for the new credential, and
\* in its smtp block the password false, whether or not signing succeeds.
C13_ImapCarriesSecretSmtpDoesNot ==
    \A o \in Descriptors :
        /\ "result" \in DOMAIN req
        /\ o.imap.password = req.result.password
        /\ o.imap.password = Password(req.result.id)
        /\ o.smtp.password = FALSE

\* a create with a profile was answered with the new id and the signed
\* profile
C13_Witness ==
    /\ Descriptors # {}
    /\ AnsweredWithSuccess
    /\ "mobileconfig" \in DOMAIN res[1]
    /\ req.result.id \in StoredIds

\* ---------------------------------------------------------------------- C15
\* the collaborators called for the request being served, in call order
CallNames == [i \in DOMAIN calls |-> calls[i].fn]

\* C15: the steps of a create run one after the other, each after the
\* previous one succeeded: the Credential Service is called only for a
\* validated create whose account was found, the Profile Signer only for a
\* create that wants a profile and whose credential was already minted and
\* stored; a create that wants no profile answers with the id and password
\* without the signer; list and delete never call the signer.
C15_StepsInOrder ==
    /\ "generateASP" \in Called =>
          /\ req.op = "create" /\ Validated
          /\ SubSeq(CallNames, 1, 2) = <<"users.findOne", "generateASP">>
          /\ "userData" \in DOMAIN req /\ req.userData # Null
    /\ "getSignedEmailConfig" \in Called =>
          /\ req.op = "create" /\ Validated
          /\ req.generateMobileconfig
          /\ CallNames = <<"users.findOne", "generateASP", "getSignedEmailConfig">>
          /\ "result" \in DOMAIN req
          /\ req.result.id \in StoredIds
    /\ (req.op = "create" /\ Validated /\ ~req.generateMobileconfig /\ "result" \in DOMAIN req) =>
          /\ AnsweredWith(CreatedBody(req.result))
          /\ CallNames = <<"users.findOne", "generateASP">>
    /\ req.op \in {"list", "delete"} => "getSignedEmailConfig" \notin Called

\* a create that wants no profile was answered with the id and password
C15_Witness ==
    /\ req.op = "create" /\ Validated
    /\ ~req.generateMobileconfig
    /\ "result" \in DOMAIN req
    /\ AnsweredWithSuccess

\* ---------------------------------------------------------------------- C16
\* how often the collaborator was called for the request being served
TimesCalled(fn) == Cardinality({i \in DOMAIN calls : calls[i].fn = fn})

\* the request being served was answered with the error of the Credential
\* Service's deleteASP
DeletingErrorAnswered == AnsweredWithError /\ req.op = "delete" /\ "deleteASP" \in Called

\* C16: within one request every collaborator is called at most once, also
\* after it failed; a step mints at most one credential and mints only in
\* the callback of the single generateASP call, which ends or hands over to
\* the signer; a failure of generateASP or deleteASP is answered with the
\* collaborator's message unchanged.
C16_NoRetries ==
    [][/\ \A fn \in Called' : TimesCalled(fn)' = 1
       /\ Cardinality(asps' \ asps) <= 1
       /\ nextId' \in {nextId, nextId + 1}
       /\ (asps' \ asps # {} \/ nextId' # nextId) =>
             /\ pc = "create.generateASP"
             /\ pc' \in {"done", "create.sign"}
             /\ calls' \in {calls, Append(calls, calls'[Len(calls')])}
       /\ (pc = "create.generateASP" /\ nextId' = nextId) =>
             /\ MintingErrorAnswered'
             /\ res'[1].error \in ErrMessages
       /\ DeletingErrorAnswered' =>
             res'[1].error \in ErrMessages \cup {NotFoundError.message}]_vars

\* a create was answered with the Credential Service's failure while an
\* earlier request had minted a credential
C16_Witness ==
    /\ MintingErrorAnswered
    /\ res[1].error = "Failed"
    /\ TimesCalled("generateASP") = 1
    /\ asps # {}

\* ---------------------------------------------------------------------- C17
\* the scope list of the request repeats a known token
RepeatsScope(params) ==
    /\ "scopes" \in DOMAIN params
    /\ \E i, j \in DOMAIN params.scopes :
          /\ i # j
          /\ params.scopes[i] = params.scopes[j]
          /\ params.scopes[i] \in SCOPES \cup {"*"}

\* a create request that repeats a known scope token and is valid otherwise
C17_Case ==
    /\ req.op = "create"
    /\ RepeatsScope(req.params)
    /\ CreateViolations(req.params) \subseteq {"scopes"}

\* C17 as claimed: a create request whose scope list repeats a known token
\* is accepted and goes on with the set of distinct tokens.
C17_RepeatedScopeAccepted ==
    C17_Case =>
        /\ Validated
        /\ Range(req.scopes) = RequestedScopes(req.params)
        /\ ~(AnsweredWithError /\ calls = <<>> /\ "code" \in DOMAIN res[1])

\* C17: a create request whose scope list repeats a known token is rejected
\* as a whole: it is answered with an InputValidationError that names the
\* scopes, nothing is normalized and no collaborator is called.
C17_RepeatedScopeRejected ==
    C17_Case =>
        /\ ~Validated
        /\ AnsweredWith(ValidationErrorBody(Error(JoiMessage({"scopes"}))))
        /\ calls = <<>>

\* the request with the scopes imap, imap was answered
C17_Witness ==
    /\ C17_Case
    /\ pc = "done"
    /\ req.params.scopes = <<"imap", "imap">>
    /\ Len(res) = 1

\* ---------------------------------------------------------------------- C18
\* the display name of the configured template after the address was filled
\* in, or Undefined when the template has none
TemplateDisplayName == Get(ProfileOpts(config, req.userData), "displayName")

\* C18 as claimed: the descriptor's display name is the template's display
\* name when the template defines one, and the description of the ASP only
\* when it does not.
C18_TemplateNameFirst ==
    \A o \in Descriptors :
        o.displayName = IF TemplateDisplayName \in {Undefined, ""}
                        THEN req.description
                        ELSE TemplateDisplayName

\* C18: the descriptor's display name is the description of the ASP,
\* trimmed, whether or not the template defines a display name; the
\* description is never empty, so the template's name is never used.
C18_DescriptionFirst ==
    \A o \in Descriptors :
        /\ req.description = Trim(req.params.description)
        /\ req.description # ""
        /\ o.displayName = req.description

\* a descriptor was handed to the signer under a template that defines a
\* display name different from the description
C18_Witness ==
    /\ Descriptors # {}
    /\ TemplateDisplayName \notin {Undefined, "", req.description}

\* ---------------------------------------------------------------------- C19
\* C19: the smtp block of every descriptor handed to the signer takes its
\* hostname, port and secure flag from the smtp setup configuration, for a
\* configured secure flag of true as well as of false.
C19_SmtpFromConfig ==
    \A o \in Descriptors :
        /\ o.smtp.hostname = config.smtp.setup.hostname
        /\ o.smtp.port = OrPort(config.smtp.setup.port, config.smtp.port)
        /\ o.smtp.username = req.userData.username
        /\ o.smtp.secure = config.smtp.setup.secure

\* ---------------------------------------------------------------------- C20
\* a validated create request with conflicting profile scopes whose owner
\* is not an account
C20_Case == C1_Case /\ req.user \notin DOMAIN UsersCollection

\* C20: a create request with conflicting profile scopes for an owner that
\* does not exist is answered with the scope conflict and not with
\* UserNotFound, and no account was looked up for it; a delete request never
\* looks an account up: once validated, its only call is deleteASP, also
\* for an owner that does not exist.
C20_ConflictBeforeLookup ==
    /\ C20_Case =>
          /\ AnsweredWith(ConflictBody)
          /\ res[1] # UserNotFoundBody
          /\ calls = <<>>
          /\ "userData" \notin DOMAIN req
    /\ req.op = "delete" =>
          /\ "users.findOne" \notin Called
          /\ "userData" \notin DOMAIN req
          /\ Validated => CallNames = <<"deleteASP">>
          /\ pc = "done" => res[1] # UserNotFoundBody

\* the conflicting create request for the well-formed id of no account was
\* answered
C20_Witness ==
    /\ C20_Case
    /\ pc = "done"
    /\ req.user = "u3"
    /\ Len(res) = 1

\* ---------------------------------------------------------------------- C14
\* the step answers a list request with its entries
ListAnswered == pc = "list.find" /\ AnsweredWithSuccess'

\* C14: a list request that is answered for an owner whose previous list
\* answer was given with no create or delete since returns the same
\* sequence of entries as that previous answer; and no step of a list
\* request changes the stored ASPs or mints an id.
C14_ListIdempotent ==
    [][/\ ListAnswered =>
             /\ listed.on
             /\ listed'.last # <<>>
             /\ listed'.last[1].results = res'[1].results
             /\ (listed.last # <<>> /\ listed.last[1].user = req.user) =>
                    res'[1].results = listed.last[1].results
       /\ (req.op = "list" \/ req'.op = "list") =>
             /\ asps' = asps
             /\ nextId' = nextId]_vars

\* an owner's stored ASPs were listed twice in a row with nothing created
\* or deleted in between, while another owner has an ASP too
C14_Witness ==
    /\ pc = "done"
    /\ req.op = "list"
    /\ Validated
    /\ listed.last # <<>>
    /\ listed.last[1].again
    /\ listed.last[1].results # <<>>
    /\ \E a \in asps : a.user # req.user

====
